---- MODULE Spec2Model ----
(***************************************************************************)
(* Model of the browser session lifecycle manager of seek-auto-bot        *)
(* (src/utils/browser.py, class BrowserManager) and of its callers.        *)
(*                                                                         *)
(* Tasks are threads calling the public operations of the singleton.      *)
(* Every operation takes the class-level RLock, runs its body and         *)
(* releases the lock.  The browser behind a driver object is environment: *)
(* it can crash, stop answering for a while, be navigated and have tabs   *)
(* opened and closed by whoever holds a handle (or by the human user).    *)
(*                                                                         *)
(* Spec        threads calling the manager, with the browser events       *)
(* SpecProbe   the health probe on arbitrary answers of the driver         *)
(* SpecFair    threads calling the manager under a fair scheduler          *)
(* SpecLoop    the coroutines of the API process on its one event loop     *)
(*             (src/api, src/core/bot.py, src/core/scraper.py)             *)
(* SpecCaptcha the wait loop of src/core/captcha_handler.py, with a clock  *)
(* SpecWaiters several coroutines in that wait loop on one handler         *)
(* SpecSingleton constructions of BrowserManager beside calls of it        *)
(* SpecBot     bot starts, stops and runs, scraper runs (src/core/bot.py)  *)
(* SpecLogin   SeekAuthWithCaptcha.login beside calls of the manager       *)
(* SpecType    AntiDetection.human_type on bounded texts                   *)
(* SpecRetry   a call of a function wrapped by retry_on_error              *)
(*             (src/utils/errors.py)                                       *)
(***************************************************************************)
EXTENDS Integers, Sequences, FiniteSets, TLC

\* ------------------------------------------------------------------ bounds
NumTasks == 2
MaxBrowsers == 2
MaxTabs == 2
MaxTimeout == 7
MaxStart == 1

Tasks == 1..NumTasks
BrowserIds == 1..MaxBrowsers
None == 0

\* URLs a session can be at: the page Chrome starts on and the site.
StartUrl == "data:,"
URLs == {StartUrl, "https://www.seek.com.au"}

Ops == {"acquire", "status", "has_driver", "destroy", "recover"}

VARIABLES
    driver,      \* BrowserManager._driver: None or the id of a driver object
    locked_in,   \* BrowserManager._driver_locked_in
    lock,        \* owner of BrowserManager._lock (None when free)
    browsers,    \* the browser instance behind each driver object
    pc,          \* position of each task inside its current operation
    op,          \* operation each task is running
    phase,       \* recover_driver: 1 = destroy_driver, 2 = get_driver
    res,         \* what the current call has returned or raised so far
    seen,        \* what the current call observed when it ran its probe
    called,      \* {"recover"} once a recover_driver call has started to run
    stranded,    \* some Acquire has found the locked-in driver dead
    \* -- the coroutines of the API process on its event loop
    running,     \* coroutine that occupies the event loop thread (None: free)
    at,          \* position of each coroutine outside the manager
    job,         \* what each coroutine is
    \* -- CaptchaHandler.wait_for_captcha_solution
    clock,                \* time.time()
    challenge,            \* a challenge indicator is present in the page
    intervention_active,  \* CaptchaHandler.intervention_active
    start_time,           \* local start_time of the loop
    timeout,              \* parameter timeout of the call
    cpc,                  \* position inside wait_for_captcha_solution
    cret,                 \* value it returned
    polls,                \* history of the call: what its polls reported
    intervention_start_time,  \* CaptchaHandler.intervention_start_time
    notes,                \* history: calls of _send_notification, last outcome
    \* -- several coroutines in wait_for_captcha_solution of one handler
    wpc,                  \* position of each coroutine: idle, sleep, done
    wstart,               \* its local start_time
    wlimit,               \* its parameter timeout
    wake,                 \* end of its asyncio.sleep
    \* -- the constructions of BrowserManager
    instance,             \* BrowserManager._instance
    initialized,          \* the instance has the attribute _initialized
    refs,                 \* what each consumer got from BrowserManager()
    \* -- the bot of the API process (api/routes.py, core/bot.py)
    bot_instance,         \* routes.bot_instance: None or the SeekBot made last
    brun,                 \* SeekBot.running of each SeekBot
    btask,                \* SeekBot.current_task of each SeekBot
    bjob,                 \* what each task runs: a bot run or a scraper run
    bpc,                  \* position of each task in its run
    btarget,              \* the SeekBot that the run_bot_async of the task started
    bgot,                 \* what the manager call of the task returned or raised
    bret,                 \* how start / scrape_jobs ended
    \* -- SeekAuthWithCaptcha.login
    lpc,                  \* position inside login
    lexc,                 \* exception that the try body raised
    lret,                 \* how login ended
    \* -- AntiDetection.human_type
    text,                 \* parameter text
    idx,                  \* characters of text that the loop is done with
    sent,                 \* what element.send_keys has been given, in order
    tpc,                  \* position inside human_type
    \* -- a call of the wrapper that retry_on_error makes
    max_retries,          \* parameter max_retries of the decorator
    exceptions,           \* parameter exceptions: the types that are retried
    attempt,              \* loop variable of the wrapper
    last_exception,       \* local last_exception
    invoked,              \* history: invocations of the wrapped function
    slept,                \* history: the wait times slept, in order
    rpc,                  \* position inside the wrapper
    rret                  \* how the wrapper ended

\* The manager and the browsers.
mgr == <<driver, locked_in, lock, browsers, pc, op, phase, res, seen, called, stranded>>
\* The event loop.
loopv == <<running, at, job>>
\* The captcha intervention.
capv == <<clock, challenge, intervention_active, start_time, timeout, cpc, cret, polls,
          intervention_start_time, notes>>
\* Concurrent waits on one captcha handler.
waitv == <<wpc, wstart, wlimit, wake>>
\* The parts that the manager, the event loop and the single captcha wait
\* never touch.
\* The singleton and the references of its consumers.
singv == <<instance, initialized, refs>>
\* The bot runs.
botv == <<bot_instance, brun, btask, bjob, bpc, btarget, bgot, bret>>
\* A login.
loginv == <<lpc, lexc, lret>>
\* A call of human_type.
typev == <<text, idx, sent, tpc>>
\* A call of a retrying wrapper.
retryv == <<max_retries, exceptions, attempt, last_exception, invoked, slept, rpc, rret>>
others == <<waitv, singv, botv, loginv, typev, retryv>>
notWait == <<singv, botv, loginv, typev, retryv>>
notSing == <<waitv, botv, loginv, typev, retryv>>
notBot == <<waitv, singv, loginv, typev, retryv>>
notLogin == <<waitv, singv, botv, typev, retryv>>
notType == <<waitv, singv, botv, loginv, retryv>>
notRetry == <<waitv, singv, botv, loginv, typev>>
\* Everything outside the manager.
ext == <<loopv, capv, others>>

vars == <<mgr, ext>>

\* ------------------------------------------------------- browser instances
\* st:   "unborn"  the id is not used yet
\*       "failed"  uc.Chrome raised, no browser instance came to exist
\*       "running" a browser instance exists
\*       "gone"    the instance has terminated (quit or crash)
\* hung: the instance does not answer webdriver commands at the moment
\* tabs: number of window handles
\* sid:  session_id of the driver object (None when missing)
\* stealth: number of times the stealth scripts were run in the instance
NoBrowser == [st |-> "unborn", hung |-> FALSE, url |-> StartUrl, tabs |-> 0, sid |-> None,
              stealth |-> 0]
\* The instance that uc.Chrome gives (lines 118-122).
FreshBrowser(b) == [st |-> "running", hung |-> FALSE, url |-> StartUrl, tabs |-> 1, sid |-> b,
                    stealth |-> 0]

\* _apply_basic_stealth_sync (line 129, lines 199-215): the three scripts
\* are run in the page the instance shows; a script that raises is skipped.
\* Variant: _create_supreme_driver_sync does not run the scripts.
ApplyBasicStealthSkipped(br) == br

ApplyBasicStealth(br) == [br EXCEPT !.stealth = @ + 1]

Running == {b \in BrowserIds : browsers[b].st = "running"}
Unborn == {b \in BrowserIds : browsers[b].st = "unborn"}
Attempts == Cardinality(BrowserIds \ Unborn)

Min(S) == CHOOSE x \in S : \A y \in S : x <= y

\* An instance that is not (or no longer) behind the manager's driver: the
\* manager never reads it again, only whether it still exists matters.
Detached(b, st) == [NoBrowser EXCEPT !.st = st, !.sid = b.sid, !.stealth = b.stealth]

\* A webdriver command (current_url, title, window_handles) answers only if
\* the instance is running and not hung; otherwise it raises.
Answers(b) == b.st = "running" /\ ~b.hung

RaiseUrl == "RAISE"
RaiseHandles == 0 - 1

\* What the three reads of the probe give on a driver object: session_id is
\* a plain attribute, current_url and window_handles are commands.
ViewSid(b) == b.sid
ViewUrl(b) == IF Answers(b) THEN b.url ELSE RaiseUrl
ViewHandles(b) == IF Answers(b) THEN b.tabs ELSE RaiseHandles

\* -------------------------------------------------------------- the probe
\* Body of _is_driver_alive after the None test: sid = session_id,
\* url / handles = the command's answer, or the Raise value when it raises.
\* Variant: the test of window_handles is missing.
ProbeViewIgnoresHandles(sid, url, handles) ==
    IF url = RaiseUrl \/ handles = RaiseHandles THEN FALSE
    ELSE IF sid = None THEN FALSE
    ELSE TRUE

ProbeView(sid, url, handles) ==
    IF url = RaiseUrl \/ handles = RaiseHandles THEN FALSE   \* except branch
    ELSE IF sid = None THEN FALSE                             \* not session_id
    ELSE IF handles = 0 THEN FALSE                            \* not handles
    ELSE TRUE

IsDriverAlive(d, bs) ==
    IF d = None THEN FALSE
    ELSE ProbeView(ViewSid(bs[d]), ViewUrl(bs[d]), ViewHandles(bs[d]))

\* The probe assigns neither _driver nor _driver_locked_in, also in its
\* except branch.
\* Variants: a failed probe drops the session / resets the lock-in.
SlotAfterProbeResets(d, alive) == IF alive THEN d ELSE None
FlagAfterProbeResets(l, alive) == IF alive THEN l ELSE FALSE

SlotAfterProbe(d, alive) == d
FlagAfterProbe(l, alive) == l

\* ------------------------------------------------------------ call records
\* res.kind: "none" nothing yet, "handle" a driver was returned, "unavailable"
\* None was returned, "error" BrowserError was raised, "status" a status
\* dict was returned, "bool" has_driver returned, "void" destroy returned.
\* keys: the keys of a returned status dict.
NoRes == [kind |-> "none", handle |-> None, status |-> "", alive |-> FALSE,
          url |-> StartUrl, tabs |-> 0, sid |-> None, keys |-> {}]
\* History of the current call: the flag, the slot and the probe result it
\* saw at its probe; the creation attempts it made; for a destruction the
\* slot and the flag it found and whether quit() raised.
NoSeen == [probed |-> FALSE, locked |-> FALSE, alive |-> FALSE, drv |-> None,
           made |-> 0, destroyed |-> None, wasLocked |-> FALSE,
           quitRaised |-> FALSE, readOk |-> TRUE]

\* No coroutine has been scheduled on the event loop.
InitLoop ==
    /\ running = None
    /\ at = [t \in Tasks |-> "off"]
    /\ job = [t \in Tasks |-> "status"]

\* CaptchaHandler.__init__ (lines 36-37): no intervention; polls: number of
\* polls that reported the challenge present, and the report of the last one.
NoPolls == [present |-> 0, last |-> "none"]
NoNotes == [calls |-> 0, last |-> "none"]

\* time.time() is a positive number of seconds.
InitCaptcha ==
    /\ clock = 1
    /\ challenge = FALSE
    /\ intervention_active = FALSE
    /\ start_time = 0
    /\ timeout = 0
    /\ cpc = "idle"
    /\ cret = FALSE
    /\ polls = NoPolls
    /\ intervention_start_time = None
    /\ notes = NoNotes

\* BrowserManager after construction, no call made yet.
InitManager ==
    /\ driver = None
    /\ locked_in = FALSE
    /\ lock = None
    /\ browsers = [b \in BrowserIds |-> NoBrowser]
    /\ pc = [t \in Tasks |-> "idle"]
    /\ op = [t \in Tasks |-> "acquire"]
    /\ phase = [t \in Tasks |-> 1]
    /\ res = [t \in Tasks |-> NoRes]
    /\ seen = [t \in Tasks |-> NoSeen]
    /\ called = {}
    /\ stranded = FALSE

\* No coroutine is waiting for a captcha.
InitWaiters ==
    /\ wpc = [t \in Tasks |-> "idle"]
    /\ wstart = [t \in Tasks |-> 0]
    /\ wlimit = [t \in Tasks |-> 0]
    /\ wake = [t \in Tasks |-> 0]

\* The module has been imported: line 289 has constructed the manager
\* (object Supreme); no consumer has constructed one of its own yet.
Supreme == 1
NoRef == [obj |-> None, locked |-> FALSE, slot |-> None]

InitSingleton ==
    /\ instance = Supreme
    /\ initialized = TRUE
    /\ refs = [t \in Tasks |-> NoRef]

\* routes.py line 27: no SeekBot yet; no run of anything.
NoBot == 0
NoGot == [kind |-> "none", handle |-> None]
InitBot ==
    /\ bot_instance = NoBot
    /\ brun = [i \in Tasks |-> FALSE]
    /\ btask = [i \in Tasks |-> "idle"]
    /\ bjob = [t \in Tasks |-> "none"]
    /\ bpc = [t \in Tasks |-> "none"]
    /\ btarget = [t \in Tasks |-> NoBot]
    /\ bgot = [t \in Tasks |-> NoGot]
    /\ bret = [t \in Tasks |-> "none"]

\* login has not been called.
InitLogin ==
    /\ lpc = "idle"
    /\ lexc = "none"
    /\ lret = "none"

\* human_type has not been called.
InitType ==
    /\ text = <<>>
    /\ idx = 0
    /\ sent = <<>>
    /\ tpc = "idle"

\* The wrapper of retry_on_error() (defaults of line 227 for the types)
\* has not been called.
NoExc == [type |-> "none", braces |-> FALSE]

InitRetry ==
    /\ max_retries = 0
    /\ exceptions = {"Exception"}
    /\ attempt = 0
    /\ last_exception = NoExc
    /\ invoked = 0
    /\ slept = <<>>
    /\ rpc = "idle"
    /\ rret = [kind |-> "none", exc |-> NoExc]

InitOthers == InitWaiters /\ InitSingleton /\ InitBot /\ InitLogin /\ InitType /\ InitRetry

Init == InitManager /\ InitLoop /\ InitCaptcha /\ InitOthers

\* ------------------------------------------------------------ call / lock
\* A task calls a public operation and arrives at its "with self._lock".
\* Which operation it is shows once the task gets the lock.
Call(t) ==
    /\ pc[t] = "idle"
    /\ pc' = [pc EXCEPT ![t] = "wait"]
    /\ UNCHANGED <<driver, locked_in, lock, browsers, op, phase, res, seen, called, stranded, ext>>

\* First statement run by the body entered once the lock is held.
Body(o, ph) ==
    CASE o = "acquire" -> "check"
      [] o = "status" -> "probe"
      [] o = "has_driver" -> "has"
      [] o = "destroy" -> "destroy"
      [] o = "recover" -> IF ph = 1 THEN "destroy" ELSE "check"

\* _lock is one RLock for all operations: a thread gets it only when no
\* other thread owns it (no operation takes it a second time while it owns
\* it: _is_driver_alive takes no lock).
\* Variant: the lock excludes nobody.
LockFreeAlways(l) == TRUE

LockFree(l) == l = None

\* with self._lock: (enter) for operation o; the second part of
\* recover_driver enters as get_driver.
LockAcquire(t, o) ==
    /\ pc[t] = "wait"
    /\ LockFree(lock)
    /\ phase[t] = 2 => o = "recover"
    /\ lock' = t
    /\ op' = [op EXCEPT ![t] = o]
    /\ pc' = [pc EXCEPT ![t] = Body(o, phase[t])]
    /\ called' = called \cup ({o} \cap {"recover"})
    /\ UNCHANGED <<driver, locked_in, browsers, phase, res, seen, stranded, ext>>

\* The with statement gives the lock back when its block is left, by return
\* or by exception.
\* Variant: the block is left without giving the lock back.
LockAfterExitKept(l) == l

LockAfterExit(l) == None

\* with self._lock: (exit, on return and on exception alike).  The call's
\* result, in res, goes to the caller and the task is free for its next
\* call; recover_driver goes on from destroy_driver to get_driver.
LockRelease(t) ==
    /\ pc[t] = "unlock"
    /\ lock = t
    /\ lock' = LockAfterExit(lock)
    /\ IF op[t] = "recover" /\ phase[t] = 1
       THEN /\ phase' = [phase EXCEPT ![t] = 2]
            /\ pc' = [pc EXCEPT ![t] = "wait"]
            /\ res' = [res EXCEPT ![t] = NoRes]
            /\ seen' = [seen EXCEPT ![t] = [NoSeen EXCEPT !.destroyed = seen[t].destroyed]]
            /\ UNCHANGED op
       ELSE /\ pc' = [pc EXCEPT ![t] = "idle"]
            /\ op' = [op EXCEPT ![t] = "acquire"]
            /\ phase' = [phase EXCEPT ![t] = 1]
            /\ res' = [res EXCEPT ![t] = NoRes]
            /\ seen' = [seen EXCEPT ![t] = NoSeen]
    /\ UNCHANGED <<driver, locked_in, browsers, called, stranded, ext>>

\* --------------------------------------------------- _get_driver_internal
\* The branch _get_driver_internal takes (lines 56-69).
\* Variant: a locked-in dead driver is replaced by a new one.
GetDriverDecisionRecreates(l, alive) ==
    IF l THEN (IF alive THEN "return" ELSE "create")
    ELSE (IF alive THEN "adopt" ELSE "create")

GetDriverDecision(l, alive) ==
    IF l THEN (IF alive THEN "return" ELSE "unavailable")
    ELSE (IF alive THEN "adopt" ELSE "create")

\* Lines 56-69: probe, then return / return None / go on to create.
GetDriverCheck(t) ==
    /\ pc[t] = "check"
    /\ lock = t
    /\ LET alive == IsDriverAlive(driver, browsers)
           dec == GetDriverDecision(locked_in, alive)
       IN /\ seen' = [seen EXCEPT ![t] = [@ EXCEPT !.probed = TRUE, !.locked = locked_in,
                                                     !.alive = alive, !.drv = driver]]
          /\ driver' = SlotAfterProbe(driver, alive)
          /\ locked_in' = IF dec = "adopt" THEN TRUE ELSE FlagAfterProbe(locked_in, alive)
          /\ IF dec = "create"
             THEN /\ pc' = [pc EXCEPT ![t] = "create"]
                  /\ UNCHANGED res
             ELSE /\ pc' = [pc EXCEPT ![t] = "unlock"]
                  /\ res' = [res EXCEPT ![t] =
                       IF dec = "unavailable"
                       THEN [NoRes EXCEPT !.kind = "unavailable"]
                       ELSE [NoRes EXCEPT !.kind = "handle", !.handle = driver]]
          /\ stranded' = (stranded \/ (op[t] = "acquire" /\ dec = "unavailable"))
    /\ UNCHANGED <<lock, browsers, op, phase, called, ext>>

\* What _create_supreme_driver_sync can do: "ok" the driver is forged,
\* "fail" uc.Chrome raises and no browser exists, "leak" the browser was
\* launched and a later statement of the try block raises.
CreateOutcomes == {"ok", "fail", "leak"}

\* The flag after line 70-71: line 71 runs only if line 70 did not raise.
\* Variant: line 71 is missing, a creation does not lock the manager in.
FlagAfterCreateUnset(l, outcome) == l

FlagAfterCreate(l, outcome) == IF outcome = "ok" THEN TRUE ELSE l

\* The slot after line 70.
SlotAfterCreate(d, b, outcome) == IF outcome = "ok" THEN b ELSE d

\* Lines 70-72 and _create_supreme_driver_sync.
CreateDriver(t) ==
    /\ pc[t] = "create"
    /\ lock = t
    /\ \/ /\ Unborn # {}
          /\ \E outcome \in CreateOutcomes :
               LET b == Min(Unborn) IN
               /\ browsers' = [browsers EXCEPT ![b] =
                      CASE outcome = "ok" -> ApplyBasicStealth(FreshBrowser(b))
                        [] outcome = "leak" -> Detached(FreshBrowser(b), "running")
                        [] outcome = "fail" -> [NoBrowser EXCEPT !.st = "failed"]]
               /\ driver' = SlotAfterCreate(driver, b, outcome)
               /\ locked_in' = FlagAfterCreate(locked_in, outcome)
               /\ res' = [res EXCEPT ![t] =
                      IF outcome = "ok"
                      THEN [NoRes EXCEPT !.kind = "handle", !.handle = b]
                      ELSE [NoRes EXCEPT !.kind = "error"]]
               /\ seen' = [seen EXCEPT ![t].made = @ + 1]
       \/ \* no driver object left in the model: uc.Chrome can only raise
          /\ Unborn = {}
          /\ driver' = SlotAfterCreate(driver, None, "fail")
          /\ locked_in' = FlagAfterCreate(locked_in, "fail")
          /\ res' = [res EXCEPT ![t] = [NoRes EXCEPT !.kind = "error"]]
          /\ UNCHANGED <<browsers, seen>>
    /\ pc' = [pc EXCEPT ![t] = "unlock"]
    /\ UNCHANGED <<lock, op, phase, called, stranded, ext>>

\* ------------------------------------------------ _destroy_driver_internal
\* What quit() can do to the instance, as <<raised, state afterwards>>.
QuitOutcomes(b) ==
    IF b.st = "running"
    THEN {<<FALSE, "gone">>, <<TRUE, "gone">>, <<TRUE, "running">>}
    ELSE {<<FALSE, b.st>>, <<TRUE, b.st>>}

\* Lines 233 and 237: the slot is cleared on both paths.
\* Variant: the except branch forgets to clear the slot.
SlotAfterDestroyKeepsOnError(d, raised) == IF raised THEN d ELSE None

SlotAfterDestroy(d, raised) == None

\* _destroy_driver_internal never assigns _driver_locked_in.
FlagAfterDestroy(l) == l

\* Lines 228-237.
DestroyDriver(t) ==
    /\ pc[t] = "destroy"
    /\ lock = t
    /\ IF driver # None
       THEN \E q \in QuitOutcomes(browsers[driver]) :
              /\ browsers' = [browsers EXCEPT ![driver] = Detached(@, q[2])]
              /\ driver' = SlotAfterDestroy(driver, q[1])
              /\ seen' = [seen EXCEPT ![t] = [@ EXCEPT !.destroyed = driver,
                              !.wasLocked = locked_in, !.quitRaised = q[1]]]
       ELSE /\ UNCHANGED <<browsers, driver>>
            /\ seen' = [seen EXCEPT ![t] = [@ EXCEPT !.destroyed = None,
                              !.wasLocked = locked_in]]
    /\ locked_in' = FlagAfterDestroy(locked_in)
    /\ res' = [res EXCEPT ![t] = [NoRes EXCEPT !.kind = "void"]]
    /\ pc' = [pc EXCEPT ![t] = "unlock"]
    /\ UNCHANGED <<lock, op, phase, called, stranded, ext>>

\* ------------------------------------------------------ get_supreme_status
\* Lines 244-249: the probe; a dead probe returns the NO_DRIVER dict.
StatusProbe(t) ==
    /\ pc[t] = "probe"
    /\ lock = t
    /\ LET alive == IsDriverAlive(driver, browsers)
       IN /\ seen' = [seen EXCEPT ![t] = [@ EXCEPT !.probed = TRUE, !.locked = locked_in,
                                                     !.alive = alive, !.drv = driver]]
          /\ driver' = SlotAfterProbe(driver, alive)
          /\ locked_in' = FlagAfterProbe(locked_in, alive)
          /\ IF alive
             THEN /\ pc' = [pc EXCEPT ![t] = "read"]
                  /\ UNCHANGED res
             ELSE /\ pc' = [pc EXCEPT ![t] = "unlock"]
                  /\ res' = [res EXCEPT ![t] =
                         [NoRes EXCEPT !.kind = "status", !.status = "NO_DRIVER",
                                       !.keys = {"status", "alive", "message"}]]
    /\ UNCHANGED <<lock, browsers, op, phase, called, stranded, ext>>

\* Lines 254-257: the fields of the dict are read from the driver object
\* when the dict is built (session_id, current_url, len(window_handles)).
\* Variant: the dict is built from what the session was when it was created.
StatusFieldsCached(b) == [sid |-> b.sid, url |-> StartUrl, tabs |-> 1]

StatusFields(b) == [sid |-> b.sid, url |-> b.url, tabs |-> b.tabs]

\* Lines 251-266: the dict built from the driver's fields, or the ERROR
\* dict when one of the reads raises.
\* Variant: no except clause, the error of a read escapes.
StatusDictRaises(b, ok) ==
    IF ok
    THEN [NoRes EXCEPT !.kind = "status", !.status = "SUPREME_DRIVER_ACTIVE",
                       !.alive = TRUE, !.sid = StatusFields(b).sid,
                       !.url = StatusFields(b).url, !.tabs = StatusFields(b).tabs,
                       !.keys = {"status", "alive", "session_id", "current_url",
                                 "title", "window_handles", "message"}]
    ELSE [NoRes EXCEPT !.kind = "error"]

StatusDict(b, ok) ==
    IF ok
    THEN [NoRes EXCEPT !.kind = "status", !.status = "SUPREME_DRIVER_ACTIVE",
                       !.alive = TRUE, !.sid = StatusFields(b).sid,
                       !.url = StatusFields(b).url, !.tabs = StatusFields(b).tabs,
                       !.keys = {"status", "alive", "session_id", "current_url",
                                 "title", "window_handles", "message"}]
    ELSE [NoRes EXCEPT !.kind = "status", !.status = "ERROR", !.alive = FALSE,
                       !.keys = {"status", "alive", "error", "message"}]

StatusRead(t) ==
    /\ pc[t] = "read"
    /\ lock = t
    /\ LET ok == Answers(browsers[driver])
       IN /\ res' = [res EXCEPT ![t] = StatusDict(browsers[driver], ok)]
          /\ seen' = [seen EXCEPT ![t].readOk = ok]
    /\ pc' = [pc EXCEPT ![t] = "unlock"]
    /\ UNCHANGED <<driver, locked_in, lock, browsers, op, phase, called, stranded, ext>>

\* -------------------------------------------------------------- has_driver
HasDriver(t) ==
    /\ pc[t] = "has"
    /\ lock = t
    /\ LET alive == IsDriverAlive(driver, browsers)
       IN /\ seen' = [seen EXCEPT ![t] = [@ EXCEPT !.probed = TRUE, !.locked = locked_in,
                                                     !.alive = alive, !.drv = driver]]
          /\ driver' = SlotAfterProbe(driver, alive)
          /\ locked_in' = FlagAfterProbe(locked_in, alive)
          /\ res' = [res EXCEPT ![t] = [NoRes EXCEPT !.kind = "bool", !.alive = alive]]
    /\ pc' = [pc EXCEPT ![t] = "unlock"]
    /\ UNCHANGED <<lock, browsers, op, phase, called, stranded, ext>>

\* ------------------------------------------------------------- environment
\* A browser instance dies on its own.
EnvCrash(b) ==
    /\ browsers[b].st = "running"
    /\ browsers' = [browsers EXCEPT ![b] = Detached(@, "gone")]
    /\ UNCHANGED <<driver, locked_in, lock, pc, op, phase, res, seen, called, stranded, ext>>

\* The session's browser stops answering commands for a while (a slow
\* page, an open alert dialog): current_url and window_handles raise until
\* it answers again.
EnvHang ==
    /\ driver # None
    /\ browsers[driver].st = "running"
    /\ ~browsers[driver].hung
    /\ browsers' = [browsers EXCEPT ![driver].hung = TRUE]
    /\ UNCHANGED <<driver, locked_in, lock, pc, op, phase, res, seen, called, stranded, ext>>

EnvResume ==
    /\ driver # None
    /\ browsers[driver].st = "running"
    /\ browsers[driver].hung
    /\ browsers' = [browsers EXCEPT ![driver].hung = FALSE]
    /\ UNCHANGED <<driver, locked_in, lock, pc, op, phase, res, seen, called, stranded, ext>>

\* A holder of the handle (or the user) navigates: driver.get(u).
Navigate(u) ==
    /\ driver # None
    /\ Answers(browsers[driver])
    /\ browsers[driver].tabs > 0
    /\ browsers[driver].url # u
    /\ browsers' = [browsers EXCEPT ![driver].url = u]
    /\ UNCHANGED <<driver, locked_in, lock, pc, op, phase, res, seen, called, stranded, ext>>

\* window.open(...) through the handle.
OpenTab ==
    /\ driver # None
    /\ Answers(browsers[driver])
    /\ browsers[driver].tabs > 0
    /\ browsers[driver].tabs < MaxTabs
    /\ browsers' = [browsers EXCEPT ![driver].tabs = @ + 1]
    /\ UNCHANGED <<driver, locked_in, lock, pc, op, phase, res, seen, called, stranded, ext>>

\* A window of the session is closed.
CloseTab ==
    /\ driver # None
    /\ Answers(browsers[driver])
    /\ browsers[driver].tabs > 0
    /\ browsers' = [browsers EXCEPT ![driver].tabs = @ - 1]
    /\ UNCHANGED <<driver, locked_in, lock, pc, op, phase, res, seen, called, stranded, ext>>

\* ----------------------------------------------------------- specification
Next ==
    \/ \E t \in Tasks : Call(t)
    \/ \E t \in Tasks, o \in Ops : LockAcquire(t, o)
    \/ \E t \in Tasks : LockRelease(t)
    \/ \E t \in Tasks : GetDriverCheck(t)
    \/ \E t \in Tasks : CreateDriver(t)
    \/ \E t \in Tasks : DestroyDriver(t)
    \/ \E t \in Tasks : StatusProbe(t)
    \/ \E t \in Tasks : StatusRead(t)
    \/ \E t \in Tasks : HasDriver(t)
    \/ \E b \in BrowserIds : EnvCrash(b)
    \/ EnvHang
    \/ EnvResume
    \/ \E u \in URLs : Navigate(u)
    \/ OpenTab
    \/ CloseTab

Spec == Init /\ [][Next]_vars

TypeOK ==
    /\ driver \in 0..MaxBrowsers
    /\ locked_in \in BOOLEAN
    /\ lock \in {None} \cup Tasks
    /\ \A b \in BrowserIds : browsers[b].st \in {"unborn", "failed", "running", "gone"}
    /\ \A t \in Tasks : op[t] \in Ops /\ phase[t] \in {1, 2}

\* ------------------------------------------ the probe on arbitrary answers
\* The manager holds a driver object whose answers are arbitrary: the
\* session id may be missing, the URL empty, the window list empty, the
\* browser terminated or hung.  Tasks call has_driver.
EmptyUrl == ""

InitProbe ==
    /\ driver \in {None, 1}
    /\ locked_in \in BOOLEAN
    /\ lock = None
    /\ \E st \in {"running", "gone"}, h \in BOOLEAN, u \in URLs \cup {EmptyUrl},
          n \in 0..MaxTabs, s \in {None, 1} :
         browsers = [b \in BrowserIds |->
                       IF b = 1 THEN [st |-> st, hung |-> h, url |-> u, tabs |-> n, sid |-> s,
                                      stealth |-> 1]
                       ELSE NoBrowser]
    /\ pc = [t \in Tasks |-> "idle"]
    /\ op = [t \in Tasks |-> "acquire"]
    /\ phase = [t \in Tasks |-> 1]
    /\ res = [t \in Tasks |-> NoRes]
    /\ seen = [t \in Tasks |-> NoSeen]
    /\ called = {}
    /\ stranded = FALSE
    /\ InitLoop
    /\ InitCaptcha
    /\ InitOthers

NextProbe ==
    \/ \E t \in Tasks : Call(t)
    \/ \E t \in Tasks : LockAcquire(t, "has_driver")
    \/ \E t \in Tasks : HasDriver(t)
    \/ \E t \in Tasks : LockRelease(t)

SpecProbe == InitProbe /\ [][NextProbe]_vars

\* ------------------------------------------ threads under a fair scheduler
\* The operations called from threads, with a driver that answers its
\* commands at once (no browser event).  A thread that is inside a lock
\* section goes on running, and a thread that waits for the lock gets it
\* if it becomes free again and again (fair lock).
TaskStep(t) ==
    \/ GetDriverCheck(t)
    \/ CreateDriver(t)
    \/ DestroyDriver(t)
    \/ StatusProbe(t)
    \/ StatusRead(t)
    \/ HasDriver(t)
    \/ LockRelease(t)

NextFair ==
    \/ \E t \in Tasks : Call(t)
    \/ \E t \in Tasks, o \in Ops : LockAcquire(t, o)
    \/ \E t \in Tasks : LockRelease(t)
    \/ \E t \in Tasks : GetDriverCheck(t)
    \/ \E t \in Tasks : CreateDriver(t)
    \/ \E t \in Tasks : DestroyDriver(t)
    \/ \E t \in Tasks : StatusProbe(t)
    \/ \E t \in Tasks : StatusRead(t)
    \/ \E t \in Tasks : HasDriver(t)

Fairness ==
    \A t \in Tasks : /\ WF_vars(TaskStep(t))
                     /\ SF_vars(\E o \in Ops : LockAcquire(t, o))

SpecFair == Init /\ [][NextFair]_vars /\ Fairness

\* ------------------------------------------- the coroutines on the event loop
\* The API process runs everything on one event loop thread: the status
\* endpoints, the bot started by /api/start (run_bot_async, bot.start,
\* scrape_jobs), the browser opener of the lifespan hook, the typing and the
\* captcha wait of the login flow, the shutdown hook.  A coroutine keeps the
\* thread until it awaits something that suspends it.
\* at: "off"     not scheduled, or finished
\*     "ready"   scheduled or woken up, waits for the event loop thread
\*     "run"     executes on the event loop thread
\*     "asleep"  suspended in asyncio.sleep
\*     "blocked" inside time.sleep, on the event loop thread
Jobs == {"status", "scrape", "open", "type", "captcha", "shutdown"}

\* The manager operations a coroutine calls.
JobOps(j) ==
    CASE j = "status" -> {"status"}
      [] j = "scrape" -> {"acquire", "status"}
      [] j = "open" -> {"acquire"}
      [] j = "shutdown" -> {"destroy"}
      [] OTHER -> {}

\* The coroutines that pause: scrape_jobs with time.sleep, the others with
\* asyncio.sleep (random_delay, the poll sleep of the captcha wait).
Delaying == {"scrape", "open", "type", "captcha"}
BlockingDelay(j) == j = "scrape"

\* The coroutine is executing on the event loop thread.
OnLoop(t) == running = t /\ at[t] = "run"

\* A request arrives / a task is created: the coroutine is scheduled.
Schedule(t, j) ==
    /\ at[t] = "off"
    /\ at' = [at EXCEPT ![t] = "ready"]
    /\ job' = [job EXCEPT ![t] = j]
    /\ UNCHANGED <<running, mgr, capv, others>>

\* The event loop runs a ready coroutine when its thread is free.
Resume(t) ==
    /\ at[t] = "ready"
    /\ running = None
    /\ running' = t
    /\ at' = [at EXCEPT ![t] = "run"]
    /\ UNCHANGED <<job, mgr, capv, others>>

\* The delays are statements of the callers, placed before or after their
\* manager calls, never inside one.
\* Variant: a delay can be taken at any point of a manager call.
OutsideManagerAlways(p) == TRUE

OutsideManager(p) == p = "idle"

\* The coroutine starts a delay: time.sleep keeps the event loop thread,
\* asyncio.sleep gives it back.
StartDelay(t) ==
    /\ OnLoop(t)
    /\ job[t] \in Delaying
    /\ OutsideManager(pc[t])
    /\ IF BlockingDelay(job[t])
       THEN /\ at' = [at EXCEPT ![t] = "blocked"]
            /\ UNCHANGED running
       ELSE /\ at' = [at EXCEPT ![t] = "asleep"]
            /\ running' = None
    /\ UNCHANGED <<job, mgr, capv, others>>

\* The delay is over: time.sleep returns, or the timer of asyncio.sleep
\* fires and the coroutine is ready again.
EndDelay(t) ==
    /\ at[t] \in {"blocked", "asleep"}
    /\ at' = [at EXCEPT ![t] = IF at[t] = "blocked" THEN "run" ELSE "ready"]
    /\ UNCHANGED <<running, job, mgr, capv, others>>

\* The coroutine returns.
Finish(t) ==
    /\ OnLoop(t)
    /\ pc[t] = "idle"
    /\ at' = [at EXCEPT ![t] = "off"]
    /\ running' = None
    /\ UNCHANGED <<job, mgr, capv, others>>

\* The manager operations, run by the coroutine that has the thread.
LoopCall(t) == OnLoop(t) /\ JobOps(job[t]) # {} /\ Call(t)
LoopLockAcquire(t, o) == OnLoop(t) /\ o \in JobOps(job[t]) /\ LockAcquire(t, o)
LoopGetDriverCheck(t) == OnLoop(t) /\ GetDriverCheck(t)
LoopCreateDriver(t) == OnLoop(t) /\ CreateDriver(t)
LoopDestroyDriver(t) == OnLoop(t) /\ DestroyDriver(t)
LoopStatusProbe(t) == OnLoop(t) /\ StatusProbe(t)
LoopStatusRead(t) == OnLoop(t) /\ StatusRead(t)
LoopLockRelease(t) == OnLoop(t) /\ LockRelease(t)

NextLoop ==
    \/ \E t \in Tasks, j \in Jobs : Schedule(t, j)
    \/ \E t \in Tasks : Resume(t)
    \/ \E t \in Tasks : StartDelay(t)
    \/ \E t \in Tasks : EndDelay(t)
    \/ \E t \in Tasks : Finish(t)
    \/ \E t \in Tasks : LoopCall(t)
    \/ \E t \in Tasks, o \in Ops : LoopLockAcquire(t, o)
    \/ \E t \in Tasks : LoopGetDriverCheck(t)
    \/ \E t \in Tasks : LoopCreateDriver(t)
    \/ \E t \in Tasks : LoopDestroyDriver(t)
    \/ \E t \in Tasks : LoopStatusProbe(t)
    \/ \E t \in Tasks : LoopStatusRead(t)
    \/ \E t \in Tasks : LoopLockRelease(t)

SpecLoop == Init /\ [][NextLoop]_vars

\* ------------------------------------------------ the captcha intervention
\* CaptchaHandler.wait_for_captcha_solution(timeout), called once, with the
\* human solving the challenge at any moment.  Time is counted in seconds
\* and passes in the sleeps of the loop; a scan of the page, like every
\* other statement, takes no time.
PollInterval == 2
Timeouts == 0..MaxTimeout

\* detect_captcha (lines 75-108): True when a selector or a keyword finds
\* the indicator; when the scan fails (page_source raises) the outer except
\* returns False.
DetectCaptcha(present, ok) == IF ok THEN present ELSE FALSE

\* What a poll found: the indicator, no indicator, or a failed scan.
Report(present, ok) == IF ~ok THEN "error" ELSE IF present THEN "present" ELSE "absent"

\* Line 133: while time.time() - start_time < timeout.
\* Variant: the loop goes on while the timeout is not exceeded.
LoopContinuesInclusive(elapsed, limit) == elapsed <= limit

LoopContinues(elapsed, limit) == elapsed < limit

\* Lines 135-146: not detected -> return True, detected -> sleep.
\* Variant: the loop sleeps after every poll.
PollBranchAlwaysSleeps(detected) == "sleep"

PollBranch(detected) == IF detected THEN "sleep" ELSE "return"

InitCaptchaCall ==
    /\ InitManager
    /\ InitLoop
    /\ InitOthers
    /\ clock \in 1..(MaxStart + 1)
    /\ challenge \in BOOLEAN
    /\ intervention_active = FALSE
    /\ start_time = 0
    /\ timeout = 0
    /\ cpc = "idle"
    /\ cret = FALSE
    /\ polls = NoPolls
    /\ intervention_start_time = None
    /\ notes = NoNotes

\* _send_notification (lines 176-198): the command of the platform is run;
\* on a platform that is none of the three nothing is run; an exception
\* (the command is not installed) is logged by the except branch.
NotifyOutcomes == {"delivered", "failed", "unsupported"}

\* Where wait_for_captcha_solution goes on after line 127: the except
\* branch at lines 197-198 swallows a failure, line 131 is next.
\* Variant: a failed notification ends the call.
AfterNotifyAborts(outcome) == IF outcome = "failed" THEN "done" ELSE "check"

AfterNotify(outcome) == "check"

\* Lines 115-131: the intervention begins, the notification is sent.
CaptchaStart(limit, outcome) ==
    /\ cpc = "idle"
    /\ intervention_active' = TRUE
    /\ intervention_start_time' = clock
    /\ notes' = [calls |-> notes.calls + 1, last |-> outcome]
    /\ start_time' = clock
    /\ timeout' = limit
    /\ cpc' = AfterNotify(outcome)
    /\ UNCHANGED <<clock, challenge, cret, polls, mgr, loopv, others>>

\* Line 133 and lines 152-155: the loop condition; when it fails the call
\* returns False.
LoopCheck ==
    /\ cpc = "check"
    /\ IF LoopContinues(clock - start_time, timeout)
       THEN /\ cpc' = "poll"
            /\ UNCHANGED <<intervention_active, cret>>
       ELSE /\ cpc' = "done"
            /\ intervention_active' = FALSE
            /\ cret' = FALSE
    /\ UNCHANGED <<clock, challenge, start_time, timeout, polls, intervention_start_time, notes,
                   mgr, loopv, others>>

\* Lines 135-141: one poll; ok: the scan of the page did not fail.
Poll(ok) ==
    /\ cpc = "poll"
    /\ LET detected == DetectCaptcha(challenge, ok)
       IN /\ polls' = [present |-> polls.present + (IF detected THEN 1 ELSE 0),
                       last |-> Report(challenge, ok)]
          /\ IF PollBranch(detected) = "return"
             THEN /\ cpc' = "done"
                  /\ intervention_active' = FALSE
                  /\ cret' = TRUE
             ELSE /\ cpc' = "sleep"
                  /\ UNCHANGED <<intervention_active, cret>>
    /\ UNCHANGED <<clock, challenge, start_time, timeout, intervention_start_time, notes,
                   mgr, loopv, others>>

\* Line 146: await asyncio.sleep(2).
PollSleep ==
    /\ cpc = "sleep"
    /\ clock' = clock + PollInterval
    /\ cpc' = "check"
    /\ UNCHANGED <<challenge, intervention_active, start_time, timeout, cret, polls, intervention_start_time, notes,
                   mgr, loopv, others>>

\* The human solves the challenge: the indicator leaves the page.
Solve ==
    /\ challenge
    /\ challenge' = FALSE
    /\ UNCHANGED <<clock, intervention_active, start_time, timeout, cpc, cret, polls, intervention_start_time, notes,
                   mgr, loopv, others>>

NextCaptcha ==
    \/ \E limit \in Timeouts, outcome \in NotifyOutcomes : CaptchaStart(limit, outcome)
    \/ LoopCheck
    \/ \E ok \in BOOLEAN : Poll(ok)
    \/ PollSleep
    \/ Solve

SpecCaptcha == InitCaptchaCall /\ [][NextCaptcha]_vars

\* ------------------------------------------- concurrent captcha waits
\* Several coroutines of one event loop call wait_for_captcha_solution of
\* the same CaptchaHandler.  A coroutine runs without interruption from one
\* await asyncio.sleep(2) to the next (lines 146, 150); the scans between
\* them do not give up the event loop.
WaiterTimeouts == {0, PollInterval + 1}
MaxClock == MaxStart + 2 * PollInterval

\* Lines 133-155, from the loop condition to the next sleep or return.
WaiterExits(started, limit, ok) ==
    \/ ~LoopContinues(clock - started, limit)
    \/ PollBranch(DetectCaptcha(challenge, ok)) = "return"

InitWaitersCall ==
    /\ InitManager
    /\ InitLoop
    /\ InitCaptcha
    /\ InitOthers

\* Lines 115-131 and the first round of the loop.
WaiterStart(t, limit, outcome, ok) ==
    /\ wpc[t] = "idle"
    /\ intervention_start_time' = clock
    /\ notes' = [calls |-> notes.calls + 1, last |-> outcome]
    /\ IF WaiterExits(clock, limit, ok)
       THEN /\ intervention_active' = FALSE
            /\ wpc' = [wpc EXCEPT ![t] = "done"]
            /\ UNCHANGED <<wstart, wlimit, wake>>
       ELSE /\ intervention_active' = TRUE
            /\ wpc' = [wpc EXCEPT ![t] = "sleep"]
            /\ wstart' = [wstart EXCEPT ![t] = clock]
            /\ wlimit' = [wlimit EXCEPT ![t] = limit]
            /\ wake' = [wake EXCEPT ![t] = clock + PollInterval]
    /\ UNCHANGED <<clock, challenge, start_time, timeout, cpc, cret, polls, mgr, loopv, notWait>>

\* The sleep of line 146 is over: the next round of the loop.
WaiterWake(t, ok) ==
    /\ wpc[t] = "sleep"
    /\ clock >= wake[t]
    /\ IF WaiterExits(wstart[t], wlimit[t], ok)
       THEN /\ intervention_active' = FALSE
            /\ wpc' = [wpc EXCEPT ![t] = "done"]
            /\ wstart' = [wstart EXCEPT ![t] = 0]
            /\ wlimit' = [wlimit EXCEPT ![t] = 0]
            /\ wake' = [wake EXCEPT ![t] = 0]
       ELSE /\ wake' = [wake EXCEPT ![t] = clock + PollInterval]
            /\ UNCHANGED <<intervention_active, wpc, wstart, wlimit>>
    /\ UNCHANGED <<clock, challenge, start_time, timeout, cpc, cret, polls,
                   intervention_start_time, notes, mgr, loopv, notWait>>

\* A second passes.
Tick ==
    /\ clock < MaxClock
    /\ clock' = clock + 1
    /\ UNCHANGED <<challenge, intervention_active, start_time, timeout, cpc, cret, polls,
                   intervention_start_time, notes, mgr, loopv, others>>

\* A challenge appears in the page.
Challenge ==
    /\ ~challenge
    /\ \A t \in Tasks : wpc[t] = "idle"
    /\ challenge' = TRUE
    /\ UNCHANGED <<clock, intervention_active, start_time, timeout, cpc, cret, polls,
                   intervention_start_time, notes, mgr, loopv, others>>

NextWaiters ==
    \/ \E t \in Tasks, limit \in WaiterTimeouts, outcome \in NotifyOutcomes, ok \in BOOLEAN :
          WaiterStart(t, limit, outcome, ok)
    \/ \E t \in Tasks, ok \in BOOLEAN : WaiterWake(t, ok)
    \/ Tick
    \/ Challenge
    \/ Solve

SpecWaiters == InitWaitersCall /\ [][NextWaiters]_vars

\* --------------------------------------------------------- the singleton
\* Consumers construct BrowserManager() (auth.py line 27) while tasks use
\* the manager.
\* __new__ (lines 30-33): the object a construction returns; fresh is the
\* object that super().__new__ would make.
NewInstance(inst, fresh) == IF inst = None THEN fresh ELSE inst

\* __init__ (line 36): the body runs only without the attribute.
\* Variant: the body of __init__ runs at every construction.
InitRunsAlways(inited) == TRUE

InitRuns(inited) == ~inited

\* BrowserManager(): __new__, then __init__ on the object it returned.
Construct(t) ==
    /\ pc[t] = "idle"
    /\ LET obj == NewInstance(instance, Supreme + 1) IN
       /\ instance' = obj
       /\ initialized' = TRUE
       /\ locked_in' = IF InitRuns(initialized) THEN FALSE ELSE locked_in
       /\ refs' = [refs EXCEPT ![t] = [obj |-> obj, locked |-> locked_in', slot |-> driver]]
    /\ UNCHANGED <<driver, lock, browsers, pc, op, phase, res, seen, called, stranded,
                   loopv, capv, notSing>>

SingletonOps == {"acquire", "destroy"}

NextSingleton ==
    \/ \E t \in Tasks : Construct(t)
    \/ \E t \in Tasks : Call(t)
    \/ \E t \in Tasks, o \in SingletonOps : LockAcquire(t, o)
    \/ \E t \in Tasks : LockRelease(t)
    \/ \E t \in Tasks : GetDriverCheck(t)
    \/ \E t \in Tasks : CreateDriver(t)
    \/ \E t \in Tasks : DestroyDriver(t)

SpecSingleton == Init /\ [][NextSingleton]_vars

\* ----------------------------------------------------------- the bot runs
\* POST /start and /stop of the API, the background task run_bot_async with
\* SeekBot.start, and runs of SeekScraper.scrape_jobs / close.  The SeekBot
\* made by the request of task t is called t.  The runs are coroutines of
\* one event loop and contain no await that gives the loop up (get_driver
\* returns at once, the scraper sleeps with time.sleep), so one run is in
\* progress at a time; start and stop requests are taken at any moment.
\* The drivers are not destroyed and do not crash here; they may stop
\* answering for a while.
SeekUrl == "https://www.seek.com.au"

\* Methods of SeekAuth (auth.py): set_driver is not one of them.
AuthMethods == {"login", "logout", "is_authenticated", "refresh_session"}

\* Where an exception came from, as the last source line of its traceback.
\* The text of these lines holds a replacement field of an f-string:
\* browser.py 137  raise BrowserError(f"... {str(e)}")
\* scraper.py 17   logger.info(f"Got driver, current URL: {driver.current_url}")
\* bot.py 72       self.auth.set_driver(self.driver)      (no brace)
LinesWithBraces == {"browser.py:137", "scraper.py:17"}

\* logging.py line 130 hands every message to loguru together with the
\* keyword argument extra; loguru then builds the record with
\* message.format(**kwargs), which raises KeyError on a brace field.
LogRaises(message_has_braces) == message_has_braces

\* bot.py lines 101-107 (and scraper.py lines 119-123): the handler logs
\* the error, then logs traceback.format_exc(), which shows the source
\* lines of the traceback; if that log raises, the handler is left by the
\* new exception, otherwise it returns False (the scraper: []).
HandlerOutcome(origin, result) ==
    IF LogRaises(origin \in LinesWithBraces) THEN "raised" ELSE result

RunInProgress == \E t \in Tasks : bpc[t] \notin {"none", "scheduled", "returned"}

\* routes.py line 140: the test of start_bot.
StartAccepted(inst, run) == ~(inst # NoBot /\ run[inst])

\* Lines 134-155 of routes.py: a SeekBot is made, its run is scheduled.
StartBot(t) ==
    /\ bpc[t] = "none"
    /\ StartAccepted(bot_instance, brun)
    /\ bot_instance' = t
    /\ brun' = [brun EXCEPT ![t] = FALSE]
    /\ btask' = [btask EXCEPT ![t] = "idle"]
    /\ bjob' = [bjob EXCEPT ![t] = "bot"]
    /\ bpc' = [bpc EXCEPT ![t] = "scheduled"]
    /\ UNCHANGED <<btarget, bgot, bret, mgr, loopv, capv, notBot>>

\* Lines 157-174 of routes.py and SeekBot.stop.
StopBot ==
    /\ bot_instance # NoBot
    /\ brun[bot_instance]
    /\ brun' = [brun EXCEPT ![bot_instance] = FALSE]
    /\ UNCHANGED <<bot_instance, btask, bjob, bpc, btarget, bgot, bret, mgr, loopv, capv, notBot>>

\* run_bot_async (lines 478-483) takes the SeekBot of the moment and calls
\* start: lines 50-53 of bot.py; ok: initialize returned True.
BotBegin(t, ok) ==
    /\ bpc[t] = "scheduled"
    /\ ~RunInProgress
    /\ btarget' = [btarget EXCEPT ![t] = bot_instance]
    /\ IF ok
       THEN /\ brun' = [brun EXCEPT ![bot_instance] = TRUE]
            /\ bpc' = [bpc EXCEPT ![t] = "driver"]
            /\ UNCHANGED bret
       ELSE /\ bret' = [bret EXCEPT ![t] = "false"]
            /\ bpc' = [bpc EXCEPT ![t] = "returned"]
            /\ UNCHANGED brun
    /\ UNCHANGED <<bot_instance, btask, bjob, bgot, mgr, loopv, capv, notBot>>

\* bot.py line 59 / scraper.py line 16 (get_the_driver) and bot.py line 62
\* (get_supreme_status): the call of the manager.
BotCall(t) == bpc[t] \in {"driver", "status"} /\ Call(t)

BotLockAcquire(t) ==
    \/ bpc[t] = "driver" /\ LockAcquire(t, "acquire")
    \/ bpc[t] = "status" /\ LockAcquire(t, "status")

\* The return statement of the manager call gives its value to the run
\* (an exception: the line that raised it).
BotTake(t) ==
    /\ pc[t] = "unlock"
    /\ bpc[t] \in {"driver", "status"}
    /\ bgot' = [bgot EXCEPT ![t] =
          IF bpc[t] = "driver"
          THEN CASE res[t].kind = "handle" -> [kind |-> "handle", handle |-> res[t].handle]
                 [] res[t].kind = "error" -> [kind |-> "browser.py:137", handle |-> None]
                 [] OTHER -> [kind |-> "unavailable", handle |-> None]
          ELSE [kind |-> IF res[t].alive THEN "alive" ELSE "dead", handle |-> None]]
    /\ bpc' = [bpc EXCEPT ![t] = IF bpc[t] = "driver" THEN "driver_ret" ELSE "status_ret"]
    /\ UNCHANGED <<bot_instance, brun, btask, bjob, btarget, bret, mgr, loopv, capv, notBot>>

BotLockRelease(t) == bpc[t] \in {"driver_ret", "status_ret"} /\ LockRelease(t)

\* bot.py lines 59-62: a BrowserError goes to the handler of line 101.
BotAfterDriver(t) ==
    /\ bjob[t] = "bot"
    /\ bpc[t] = "driver_ret"
    /\ pc[t] = "idle"
    /\ bpc' = [bpc EXCEPT ![t] = IF bgot[t].kind = "browser.py:137" THEN "except" ELSE "status"]
    /\ UNCHANGED <<bot_instance, brun, btask, bjob, btarget, bgot, bret, mgr, loopv, capv, notBot>>

\* bot.py lines 63-72: not alive -> return False; alive -> line 72, which
\* raises AttributeError because SeekAuth has no set_driver.
BotAfterStatus(t) ==
    /\ bpc[t] = "status_ret"
    /\ pc[t] = "idle"
    /\ IF bgot[t].kind = "alive"
       THEN /\ IF "set_driver" \in AuthMethods
               THEN /\ bpc' = [bpc EXCEPT ![t] = "scrape"]
                    /\ UNCHANGED bgot
               ELSE /\ bpc' = [bpc EXCEPT ![t] = "except"]
                    /\ bgot' = [bgot EXCEPT ![t].kind = "bot.py:72"]
            /\ UNCHANGED bret
       ELSE /\ bret' = [bret EXCEPT ![t] = "false"]
            /\ bpc' = [bpc EXCEPT ![t] = "finally"]
            /\ UNCHANGED bgot
    /\ UNCHANGED <<bot_instance, brun, btask, bjob, btarget, mgr, loopv, capv, notBot>>

\* bot.py lines 101-107.
BotExcept(t) ==
    /\ bpc[t] = "except"
    /\ bret' = [bret EXCEPT ![t] = HandlerOutcome(bgot[t].kind, "false")]
    /\ bpc' = [bpc EXCEPT ![t] = "finally"]
    /\ UNCHANGED <<bot_instance, brun, btask, bjob, btarget, bgot, mgr, loopv, capv, notBot>>

\* bot.py line 111: the run leaves the driver with the manager.
\* Variant: the bot clears the manager's slot when its run ends.
SlotAfterRunCleared(d) == None

SlotAfterRun(d) == d

\* bot.py lines 108-112; an exception that left the handler goes on to
\* run_bot_async.
BotFinally(t) ==
    /\ bpc[t] = "finally"
    /\ brun' = [brun EXCEPT ![btarget[t]] = FALSE]
    /\ btask' = [btask EXCEPT ![btarget[t]] = "idle"]
    /\ driver' = SlotAfterRun(driver)
    /\ bpc' = [bpc EXCEPT ![t] = IF bret[t] = "raised" THEN "async_except" ELSE "returned"]
    /\ UNCHANGED <<bot_instance, bjob, btarget, bgot, bret,
                   locked_in, lock, browsers, pc, op, phase, res, seen, called, stranded,
                   loopv, capv, notBot>>

\* routes.py lines 484-488.
RunBotAsyncExcept(t) ==
    /\ bpc[t] = "async_except"
    /\ IF bot_instance # NoBot
       THEN /\ brun' = [brun EXCEPT ![bot_instance] = FALSE]
            /\ btask' = [btask EXCEPT ![bot_instance] = "error"]
       ELSE UNCHANGED <<brun, btask>>
    /\ bpc' = [bpc EXCEPT ![t] = "returned"]
    /\ UNCHANGED <<bot_instance, bjob, btarget, bgot, bret, mgr, loopv, capv, notBot>>

\* A run of SeekScraper.scrape_jobs begins (scraper.py line 16).
ScraperStart(t) ==
    /\ bpc[t] = "none"
    /\ ~RunInProgress
    /\ bjob' = [bjob EXCEPT ![t] = "scraper"]
    /\ bpc' = [bpc EXCEPT ![t] = "driver"]
    /\ UNCHANGED <<bot_instance, brun, btask, btarget, bgot, bret, mgr, loopv, capv, notBot>>

\* scraper.py lines 17-123 with the value of get_the_driver; found: the
\* search inputs were found and used.  A BrowserError, a None driver and a
\* driver that does not answer all end in the handler of line 119; with a
\* driver that answers the page is seek.com.au afterwards.
ScraperUse(t, found) ==
    /\ bjob[t] = "scraper"
    /\ bpc[t] = "driver_ret"
    /\ pc[t] = "idle"
    /\ LET h == bgot[t].handle
           works == bgot[t].kind = "handle" /\ Answers(browsers[h]) /\ browsers[h].tabs > 0
           origin == IF bgot[t].kind = "browser.py:137" THEN "browser.py:137" ELSE "scraper.py:17"
       IN IF works
          THEN /\ browsers' = [browsers EXCEPT ![h].url = SeekUrl]
               /\ bret' = [bret EXCEPT ![t] = IF found THEN "jobs" ELSE "empty"]
          ELSE /\ bret' = [bret EXCEPT ![t] = HandlerOutcome(origin, "empty")]
               /\ UNCHANGED browsers
    /\ bpc' = [bpc EXCEPT ![t] = "close"]
    /\ UNCHANGED <<bot_instance, brun, btask, bjob, btarget, bgot,
                   driver, locked_in, lock, pc, op, phase, res, seen, called, stranded,
                   loopv, capv, notBot>>

\* SeekScraper.close (lines 125-127): pass.
ScraperClose(t) ==
    /\ bpc[t] = "close"
    /\ bpc' = [bpc EXCEPT ![t] = "returned"]
    /\ UNCHANGED <<bot_instance, brun, btask, bjob, btarget, bgot, bret, mgr, loopv, capv, notBot>>

NextBot ==
    \/ \E t \in Tasks : StartBot(t)
    \/ StopBot
    \/ \E t \in Tasks, ok \in BOOLEAN : BotBegin(t, ok)
    \/ \E t \in Tasks : BotCall(t)
    \/ \E t \in Tasks : BotLockAcquire(t)
    \/ \E t \in Tasks : GetDriverCheck(t)
    \/ \E t \in Tasks : CreateDriver(t)
    \/ \E t \in Tasks : StatusProbe(t)
    \/ \E t \in Tasks : StatusRead(t)
    \/ \E t \in Tasks : BotTake(t)
    \/ \E t \in Tasks : BotLockRelease(t)
    \/ \E t \in Tasks : BotAfterDriver(t)
    \/ \E t \in Tasks : BotAfterStatus(t)
    \/ \E t \in Tasks : BotExcept(t)
    \/ \E t \in Tasks : BotFinally(t)
    \/ \E t \in Tasks : RunBotAsyncExcept(t)
    \/ \E t \in Tasks : ScraperStart(t)
    \/ \E t \in Tasks, found \in BOOLEAN : ScraperUse(t, found)
    \/ \E t \in Tasks : ScraperClose(t)
    \/ EnvHang
    \/ EnvResume

SpecBot == Init /\ [][NextBot]_vars

\* --------------------------------------------------------------- the login
\* SeekAuthWithCaptcha.login (captcha_handler.py lines 215-259), called
\* once, while tasks use the manager.
\* The methods of BrowserManager (browser.py); create_driver is not one.
ManagerMethods == {"get_driver", "get_driver_sync", "has_driver", "destroy_driver",
                   "destroy_driver_sync", "get_supreme_status", "recover_driver",
                   "set_driver_path", "get_user_data_dir"}

\* The names that captcha_handler.py imports from utils and core (lines
\* 29-30): handle_auth_error is not one of them.
CaptchaModuleNames == {"logger", "AuthError"}

\* Lines 218-223: the credentials; without them AuthError is raised.
LoginStart(creds) ==
    /\ lpc = "idle"
    /\ IF creds
       THEN /\ lpc' = "create"
            /\ UNCHANGED lexc
       ELSE /\ lpc' = "except"
            /\ lexc' = "AuthError"
    /\ UNCHANGED <<lret, mgr, loopv, capv, notLogin>>

\* Line 229: self.browser_manager.create_driver().
LoginCreateDriver ==
    /\ lpc = "create"
    /\ IF "create_driver" \in ManagerMethods
       THEN /\ lpc' = "stealth"
            /\ UNCHANGED lexc
       ELSE /\ lpc' = "except"
            /\ lexc' = "AttributeError"
    /\ UNCHANGED <<lret, mgr, loopv, capv, notLogin>>

\* Lines 257-259, the handler of every exception of the try body (the
\* AuthError of an intervention timeout, lines 241 and 279-288, included):
\* handle_auth_error(e, ...), then return False.
LoginExcept ==
    /\ lpc = "except"
    /\ lret' = IF "handle_auth_error" \in CaptchaModuleNames THEN "false" ELSE "raised"
    /\ lpc' = "done"
    /\ UNCHANGED <<lexc, mgr, loopv, capv, notLogin>>

LoginOps == {"acquire"}

NextLogin ==
    \/ \E creds \in BOOLEAN : LoginStart(creds)
    \/ LoginCreateDriver
    \/ LoginExcept
    \/ \E t \in Tasks : Call(t)
    \/ \E t \in Tasks, o \in LoginOps : LockAcquire(t, o)
    \/ \E t \in Tasks : LockRelease(t)
    \/ \E t \in Tasks : GetDriverCheck(t)
    \/ \E t \in Tasks : CreateDriver(t)

SpecLogin == Init /\ [][NextLogin]_vars

\* -------------------------------------------------------------- human_type
\* AntiDetection.human_type(element, text) on an element that is empty
\* after clear().  sent: the keys given to element.send_keys, one entry for
\* each character.
MaxLen == 2
Chars == {"a", "b", " "}
Backspace == "BACKSPACE"
\* Line 181: the wrong character is any letter, the right one included.
WrongChars == {"q", "a"}
Texts == UNION {[1..n -> Chars] : n \in 0..MaxLen}

IsAlpha(c) == c # " "

\* Lines 163-188, one round of the loop: the character, and with a typo
\* (only after a letter) the wrong character, a backspace and the
\* character again.
KeyEvents(c, typo, wrong) ==
    IF typo /\ IsAlpha(c) THEN <<c, wrong, Backspace, c>> ELSE <<c>>

\* What the element holds after the keys: a backspace removes the last
\* character.
RECURSIVE Field(_)
Field(keys) ==
    IF keys = <<>> THEN <<>>
    ELSE LET before == Field(SubSeq(keys, 1, Len(keys) - 1))
             k == keys[Len(keys)]
         IN IF k = Backspace
            THEN IF before = <<>> THEN before ELSE SubSeq(before, 1, Len(before) - 1)
            ELSE Append(before, k)

InitTypeCall ==
    /\ InitManager
    /\ InitLoop
    /\ InitCaptcha
    /\ InitWaiters /\ InitSingleton /\ InitBot /\ InitLogin /\ InitRetry
    /\ text \in Texts
    /\ idx = 0
    /\ sent = <<>>
    /\ tpc = "idle"

\* Lines 155-160: element.clear().
TypeStart ==
    /\ tpc = "idle"
    /\ tpc' = "loop"
    /\ UNCHANGED <<text, idx, sent, mgr, loopv, capv, notType>>

\* Lines 162-188: one round of the loop.
TypeChar(typo, wrong) ==
    /\ tpc = "loop"
    /\ idx < Len(text)
    /\ sent' = sent \o KeyEvents(text[idx + 1], typo, wrong)
    /\ idx' = idx + 1
    /\ UNCHANGED <<text, tpc, mgr, loopv, capv, notType>>

\* The loop is over: human_type returns.
TypeEnd ==
    /\ tpc = "loop"
    /\ idx = Len(text)
    /\ tpc' = "done"
    /\ UNCHANGED <<text, idx, sent, mgr, loopv, capv, notType>>

\* A send_keys of the loop raises (the element has gone stale): line 190.
TypeRaise ==
    /\ tpc = "loop"
    /\ idx < Len(text)
    /\ tpc' = "fallback"
    /\ UNCHANGED <<text, idx, sent, mgr, loopv, capv, notType>>

\* Lines 191-193: the whole text is sent in one send_keys, which may raise
\* as well.
TypeFallback(ok) ==
    /\ tpc = "fallback"
    /\ IF ok
       THEN /\ sent' = sent \o text
            /\ tpc' = "done_fallback"
       ELSE /\ tpc' = "raised"
            /\ UNCHANGED sent
    /\ UNCHANGED <<text, idx, mgr, loopv, capv, notType>>

NextType ==
    \/ TypeStart
    \/ \E typo \in BOOLEAN, wrong \in WrongChars : TypeChar(typo, wrong)
    \/ TypeEnd
    \/ TypeRaise
    \/ \E ok \in BOOLEAN : TypeFallback(ok)

SpecType == InitTypeCall /\ [][NextType]_vars

\* ----------------------------------------------------------- retry_on_error
\* One call of the wrapper that retry_on_error(max_retries, delay, backoff,
\* exceptions) puts around a function (errors.py lines 227-269; the async
\* and the sync wrapper have the same loop).  The function is environment:
\* each invocation returns a value or raises.
MaxRetries == 2
\* Types of the exceptions the function raises.  CancelledError derives
\* from BaseException, not from Exception.
RaisedTypes == {"NetworkError", "ValueError", "CancelledError"}
\* Values of the parameter exceptions; the first is the default.
ExceptionTuples == {{"Exception"}, {"NetworkError"}, {"NetworkError", "ValueError"}}
\* Lines 236 and 253: except exceptions as e.
IsCaught(e, types) ==
    \/ e.type \in types
    \/ "Exception" \in types /\ e.type # "CancelledError"

\* Lines 239 and 256, with the defaults of line 227: delay 1, backoff 2.
WaitTime(a) == 1 * 2 ^ a

InitRetryCall ==
    /\ InitManager
    /\ InitLoop
    /\ InitCaptcha
    /\ InitWaiters /\ InitSingleton /\ InitBot /\ InitLogin /\ InitType
    /\ max_retries \in 0..MaxRetries
    /\ exceptions \in ExceptionTuples
    /\ attempt = 0
    /\ last_exception = NoExc
    /\ invoked = 0
    /\ slept = <<>>
    /\ rpc = "idle"
    /\ rret = [kind |-> "none", exc |-> NoExc]

\* Lines 232-233 / 249-250: the wrapper is called, the loop begins.
RetryCall ==
    /\ rpc = "idle"
    /\ rpc' = "try"
    /\ UNCHANGED <<max_retries, exceptions, attempt, last_exception, invoked, slept, rret,
                   mgr, loopv, capv, notRetry>>

\* Lines 234-237 / 251-254: the function is invoked; it returns (ok) or
\* raises e, an exception with its type and with whether its text holds a
\* brace, as the text of Selenium's NoSuchElementException does (the
\* locator as JSON).  An exception of another type leaves the wrapper.
RetryInvoke(ok, e) ==
    /\ rpc = "try"
    /\ invoked' = invoked + 1
    /\ IF ok
       THEN /\ rret' = [kind |-> "returned", exc |-> NoExc]
            /\ rpc' = "done"
            /\ UNCHANGED last_exception
       ELSE IF IsCaught(e, exceptions)
       THEN /\ last_exception' = e
            /\ rpc' = "except"
            /\ UNCHANGED rret
       ELSE /\ rret' = [kind |-> "raised", exc |-> e]
            /\ rpc' = "done"
            /\ UNCHANGED last_exception
    /\ UNCHANGED <<max_retries, exceptions, attempt, slept, mgr, loopv, capv, notRetry>>

\* Lines 238-244 / 255-261: the message of the log ends with str(e); a log
\* that raises leaves the wrapper with the exception of the logger.
RetryExcept ==
    /\ rpc = "except"
    /\ IF LogRaises(last_exception.braces)
       THEN /\ rret' = [kind |-> "raised_by_log", exc |-> last_exception]
            /\ rpc' = "done"
            /\ UNCHANGED slept
       ELSE IF attempt < max_retries
       THEN /\ slept' = Append(slept, WaitTime(attempt))
            /\ rpc' = "sleep"
            /\ UNCHANGED rret
       ELSE /\ rret' = [kind |-> "raised", exc |-> last_exception]
            /\ rpc' = "done"
            /\ UNCHANGED slept
    /\ UNCHANGED <<max_retries, exceptions, attempt, last_exception, invoked,
                   mgr, loopv, capv, notRetry>>

\* The sleep of line 241 / 258 is over: the next round of the loop.
RetryWake ==
    /\ rpc = "sleep"
    /\ attempt' = attempt + 1
    /\ rpc' = "try"
    /\ UNCHANGED <<max_retries, exceptions, last_exception, invoked, slept, rret,
                   mgr, loopv, capv, notRetry>>

NextRetry ==
    \/ RetryCall
    \/ \E ok \in BOOLEAN, e \in [type : RaisedTypes, braces : BOOLEAN] : RetryInvoke(ok, e)
    \/ RetryExcept
    \/ RetryWake

SpecRetry == InitRetryCall /\ [][NextRetry]_vars

\* ================================================================== claims
Launched == {b \in BrowserIds : browsers[b].st \in {"running", "gone"}}

\* A call of get_driver / get_driver_sync that has its result.
AcquireDone(t) == pc[t] = "unlock" /\ op[t] = "acquire"

\* C1: the Acquire calls of any number of tasks (no Recover having been
\* called) cause exactly one underlying driver creation: never more than one
\* browser is launched, and a call that got a handle got the launched one.
C1_OneCreation ==
    called = {} =>
        /\ Cardinality(Launched) <= 1
        /\ \A t \in Tasks : (AcquireDone(t) /\ res[t].kind = "handle") => Launched = {res[t].handle}

C2_State ==
    /\ \A t \in Tasks :
         (AcquireDone(t) /\ seen[t].locked /\ ~seen[t].alive)
             => (res[t].kind = "unavailable" /\ seen[t].made = 0)
    /\ \A t \in Tasks : (AcquireDone(t) /\ seen[t].locked) => seen[t].made = 0
    /\ \A t \in Tasks : (pc[t] = "create" /\ op[t] = "acquire") => ~locked_in

C2_Step == (locked_in /\ "recover" \notin called') => locked_in'

RecoverDone(t) == pc[t] = "unlock" /\ op[t] = "recover" /\ phase[t] = 2

C3_RecoverYieldsNewSession ==
    \A t \in Tasks :
        (RecoverDone(t) /\ res[t].kind # "error")
            => /\ res[t].kind = "handle"
               /\ res[t].handle # seen[t].destroyed

\* C4: an Acquire whose creation failed leaves the manager locked-in, and
\* with no Recover at most one creation attempt is ever made.
C4_FailedCreationLocksIn ==
    /\ \A t \in Tasks : (AcquireDone(t) /\ res[t].kind = "error") => locked_in
    /\ "recover" \notin called => Attempts <= 1

\* C5: at most one browser instance exists that was created and has not
\* terminated.
C5_AtMostOneBrowser == Cardinality(Running) <= 1

\* C6: Destroy leaves the slot empty (also when quit raised) and the flag as
\* it was; with no session it changes nothing; once the manager is locked-in
\* with an empty slot it stays so until Recover is called, and every Acquire
\* returns None and creates nothing.
DestroyDone(t) == pc[t] = "unlock" /\ op[t] = "destroy"

C6_State ==
    /\ \A t \in Tasks : DestroyDone(t) => (driver = None /\ locked_in = seen[t].wasLocked)
    /\ \A t \in Tasks :
         (AcquireDone(t) /\ seen[t].locked /\ seen[t].drv = None)
             => (res[t].kind = "unavailable" /\ seen[t].made = 0)

C6_Step ==
    /\ \A t \in Tasks :
         (pc[t] = "destroy" /\ pc'[t] = "unlock" /\ driver = None)
             => UNCHANGED <<driver, locked_in, browsers>>
    /\ (driver = None /\ locked_in /\ "recover" \notin called')
             => (driver' = None /\ locked_in')

ProbeStep(t) == pc[t] \in {"check", "probe", "has"} /\ pc'[t] # pc[t]

C7_Step ==
    /\ \A t \in Tasks :
         (ProbeStep(t) /\ ~IsDriverAlive(driver, browsers))
             => (driver' = driver /\ locked_in' = locked_in)
    /\ (driver # None /\ driver' # driver)
             => (driver' = None /\ \E t \in Tasks : pc[t] = "destroy" /\ pc'[t] = "unlock")

C7_DeadProbeKeepsSession == [][C7_Step]_vars

C7_Witness ==
    \E t \in Tasks : /\ pc[t] = "unlock" /\ op[t] \in {"acquire", "status", "has_driver"}
                     /\ seen[t].probed /\ ~seen[t].alive
                     /\ seen[t].drv # None /\ driver = seen[t].drv /\ locked_in

\* C8: the probe, on the driver object the manager holds.
HasDriverDone(t) == pc[t] = "unlock" /\ op[t] = "has_driver"
Held == browsers[driver]

ReadOnlyStep(t) == op[t] \in {"status", "has_driver"} /\ pc'[t] # pc[t]

C9_Step ==
    /\ \A t \in Tasks : ReadOnlyStep(t) => UNCHANGED <<driver, locked_in, browsers>>
    /\ \A t \in Tasks :
         ProbeStep(t) => /\ seen'[t].alive = IsDriverAlive(driver', browsers')
                         /\ browsers' = browsers
    /\ \A t \in Tasks :
         (pc[t] = "read" /\ pc'[t] = "unlock" /\ IsDriverAlive(driver', browsers'))
             => /\ res'[t].alive
                /\ res'[t].url = browsers'[driver'].url
                /\ res'[t].tabs = browsers'[driver'].tabs

C9_ReadOnlyOperations == [][C9_Step]_vars

C9_Witness ==
    \E t \in Tasks : /\ pc[t] = "unlock" /\ op[t] = "status"
                     /\ res[t].alive /\ res[t].tabs = 2 /\ res[t].url # StartUrl
                     /\ locked_in /\ driver # None

\* C10: Status always returns a dict with the keys its callers read, never
\* raises, and the dict has alive = false whenever the probe was dead or a
\* read of the driver's fields raised.
StatusDone(t) == pc[t] = "unlock" /\ op[t] = "status"

C10_StatusNeverThrows ==
    \A t \in Tasks :
        StatusDone(t) =>
            /\ res[t].kind = "status"
            /\ {"status", "alive"} \subseteq res[t].keys
            /\ res[t].status \in {"NO_DRIVER", "SUPREME_DRIVER_ACTIVE", "ERROR"}
            /\ (~seen[t].alive \/ ~seen[t].readOk) => ~res[t].alive
            /\ ~seen[t].readOk => res[t].status = "ERROR"

C10_Witness ==
    \E t \in Tasks : /\ StatusDone(t)
                     /\ seen[t].alive /\ ~seen[t].readOk
                     /\ res[t].status = "ERROR"

\* C11: a Status dict is built from the live session: a Status whose probe
\* finds the session alive goes on to read it, and when the session answers
\* the dict it returns has alive = true and the session id, the URL and the
\* tab count the session has at that read, whatever navigations, tab
\* openings and Status calls came before; the session id is that of the
\* driver the manager holds.
C11_State ==
    \A t \in Tasks :
        (StatusDone(t) /\ res[t].alive)
            => (driver # None /\ res[t].sid = driver /\ res[t].status = "SUPREME_DRIVER_ACTIVE")

C11_Step ==
    /\ \A t \in Tasks :
         (pc[t] = "probe" /\ pc'[t] # "probe" /\ IsDriverAlive(driver, browsers))
             => pc'[t] = "read"
    /\ \A t \in Tasks :
         (pc[t] = "read" /\ pc'[t] = "unlock" /\ Answers(browsers[driver]))
             => /\ res'[t].kind = "status" /\ res'[t].alive
                /\ res'[t].sid = browsers[driver].sid
                /\ res'[t].url = browsers[driver].url
                /\ res'[t].tabs = browsers[driver].tabs

InBody(t) == pc[t] \notin {"idle", "wait"}

\* recover_driver has returned from destroy_driver and has not yet entered
\* get_driver.
BetweenRecoverSteps(t) == op[t] = "recover" /\ phase[t] = 2 /\ pc[t] = "wait"

\* C12: the operations are serialized (no two tasks are inside a manager
\* operation at once) and Recover is a unit: while a task is between the
\* destroy step and the re-creation step of its Recover, no other task is
\* inside a manager operation.
C12_RecoverIsAUnit ==
    \A t, u \in Tasks :
        t # u => /\ ~(InBody(t) /\ InBody(u))
                 /\ BetweenRecoverSteps(t) => ~InBody(u)

\* C13 as claimed: Status holds the lock only to read the session
\* reference, it does not hold it while it probes and reads the session.
C13_StatusProbesOutsideLock ==
    \A t \in Tasks : (op[t] = "status" /\ pc[t] \in {"probe", "read"}) => lock # t

\* C13 amended: Status holds the lock for its whole body, probe and reads
\* included: while a task is inside Status it owns the lock and no other
\* task is inside any manager operation, another Status included.
C13_StatusCallsSerialized ==
    \A t, u \in Tasks :
        (t # u /\ op[t] = "status" /\ InBody(t)) => (lock = t /\ ~InBody(u))

\* A Status is probing while the call of another task waits for the lock.
C13_Witness ==
    \E t, u \in Tasks : /\ t # u
                        /\ op[t] = "status" /\ pc[t] = "probe" /\ lock = t
                        /\ driver # None /\ IsDriverAlive(driver, browsers)
                        /\ pc[u] = "wait"

\* A coroutine is inside a delay of the scraping, the typing or the captcha
\* wait.
InDelay(t) == at[t] \in {"asleep", "blocked"}

\* C14: a task that is suspended in a delay or in the poll sleep of the
\* captcha wait does not own the manager lock; the lock is owned only by a
\* task that is inside the body of Acquire, Status, has_driver or Destroy.
C14_NoLockDuringDelay ==
    \A t \in Tasks :
        /\ InDelay(t) => lock # t
        /\ lock = t => /\ InBody(t) /\ ~InDelay(t)
                       /\ op[t] \in {"acquire", "status", "has_driver", "destroy"}

\* A coroutine that has called the manager before is in a delay, the lock
\* is free and the session exists.
C14_Witness ==
    \E t \in Tasks : /\ InDelay(t) /\ job[t] = "scrape" /\ at[t] = "blocked"
                     /\ driver # None /\ locked_in /\ lock = None

\* A Status query has been issued and has not run yet.
StatusIssued(t) == job[t] = "status" /\ at[t] = "ready"

C16_OperationsTerminate ==
    /\ [](\A t \in Tasks : pc[t] \in {"idle", "wait"} => lock # t)
    /\ \A t \in Tasks : (pc[t] = "wait") ~> (pc[t] = "idle")
    /\ \A t \in Tasks : (lock = t) ~> (lock = None)

\* A creation has failed inside one task's Acquire while the call of
\* another task waits for the lock.
C16_Witness ==
    \E t, u \in Tasks : /\ t # u
                        /\ AcquireDone(t) /\ res[t].kind = "error" /\ lock = t
                        /\ pc[u] = "wait"

\* Time since the loop took its start_time.
Elapsed == clock - start_time

\* C17: when the polls report the challenge present K times and the next
\* one reports it absent, with K x 2 < timeout, the call returns True at that
\* poll, K poll intervals after it began: the loop polls whenever the timeout
\* has not elapsed, sleeps one interval after a poll that reported the
\* challenge, and a poll that reports it absent ends the call with True at
\* once; a call only returns False with the timeout elapsed.
C17_State ==
    /\ cpc \in {"check", "poll"} => Elapsed = polls.present * 2
    /\ (cpc = "done" /\ polls.last = "absent")
           => (cret /\ ~intervention_active /\ Elapsed = polls.present * 2
                    /\ polls.present * 2 < timeout)
    /\ (cpc = "done" /\ ~cret) => Elapsed >= timeout

C17_Step ==
    /\ (cpc = "check" /\ cpc' # "check" /\ Elapsed < timeout) => cpc' = "poll"
    /\ (cpc = "poll" /\ cpc' # "poll" /\ polls'.last = "absent")
           => (cpc' = "done" /\ cret' /\ clock' = clock)
    /\ (cpc = "poll" /\ cpc' # "poll" /\ polls'.last = "present") => cpc' = "sleep"
    /\ (cpc = "sleep" /\ cpc' # "sleep") => (clock' = clock + 2 /\ cpc' = "check")

C17_ResolvesAfterKIntervals == []C17_State /\ [][C17_Step]_vars

\* Three polls found the challenge, the fourth did not: True after 6 seconds.
C17_Witness ==
    /\ cpc = "done" /\ cret
    /\ polls.present = 3 /\ polls.last = "absent"
    /\ Elapsed = 6 /\ timeout = 7

\* C18: when every poll reports the challenge present the call returns
\* False, not before the timeout has elapsed and less than one poll interval
\* after it; it never polls or sleeps on with the timeout elapsed.
C18_State ==
    /\ (cpc = "done" /\ polls.last \in {"present", "none"})
           => (~cret /\ ~intervention_active
                     /\ Elapsed >= timeout /\ Elapsed < timeout + 2)
    /\ cpc \in {"poll", "sleep"} => Elapsed < timeout
    /\ cpc = "check" => Elapsed < timeout + 2

C18_Step ==
    (cpc = "check" /\ cpc' # "check" /\ Elapsed >= timeout)
        => (cpc' = "done" /\ ~cret' /\ ~intervention_active' /\ clock' = clock)

C18_TimesOutAtTimeout == []C18_State /\ [][C18_Step]_vars

\* Timeout 5: three polls found the challenge, False after 6 seconds.
C18_Witness ==
    /\ cpc = "done" /\ ~cret
    /\ polls.present = 3 /\ polls.last = "present"
    /\ timeout = 5 /\ Elapsed = 6 /\ challenge

\* C19: the call returns True only when its last poll scanned the page and
\* found no challenge indicator.
C19_SuccessOnlyWhenAbsent ==
    (cpc = "done" /\ cret) => polls.last = "absent"

\* C20: a poll whose scan fails does not end the intervention: the loop
\* stays active and goes on to sleep and poll again.
C20_Step ==
    (cpc = "poll" /\ cpc' # "poll" /\ polls'.last = "error")
        => (cpc' = "sleep" /\ intervention_active')

C20_ScanErrorKeepsPolling == [][C20_Step]_vars

\* C30: whenever the slot holds a driver the manager is locked-in (the slot
\* is filled only by the creation at lines 70-71, which sets the flag before
\* the lock is given back, and the flag is never cleared); so no Acquire ever
\* takes the branch that adopts a living driver while not locked-in.
C30_State == driver # None => locked_in

C30_Step ==
    \A t \in Tasks :
        (pc[t] = "check" /\ pc'[t] # "check")
            => GetDriverDecision(locked_in, IsDriverAlive(driver, browsers)) # "adopt"

C30_SlotImpliesLockedIn == []C30_State /\ [][C30_Step]_vars

\* An Acquire found the slot filled by an earlier creation, the driver
\* alive and the manager locked-in, and returned that driver.
C30_Witness ==
    \E t \in Tasks : /\ AcquireDone(t) /\ res[t].kind = "handle"
                     /\ seen[t].locked /\ seen[t].alive /\ seen[t].made = 0
                     /\ driver = res[t].handle /\ locked_in

\* get_intervention_status (lines 200-206) at time now; a start time of
\* None is false in the test of line 205.
GetInterventionStatus(active, started, now) ==
    [active |-> active,
     start_time |-> started,
     duration |-> IF started # None THEN now - started ELSE 0]

InterventionStatus == GetInterventionStatus(intervention_active, intervention_start_time, clock)

\* C21: an intervention calls the notification exactly once, in the step
\* that begins it and before any poll, however many polls follow; whatever
\* the delivery did (delivered, failed, nothing to run), the call goes on
\* to its loop with the intervention active and the timeout it was given.
C21_State ==
    /\ cpc = "idle" => notes.calls = 0
    /\ cpc # "idle" => notes.calls = 1

C21_Step ==
    /\ notes' # notes => (cpc = "idle" /\ polls = NoPolls /\ polls' = NoPolls)
    /\ (cpc = "idle" /\ cpc' # "idle")
         => /\ cpc' = "check"
            /\ intervention_active'
            /\ start_time' = clock
            /\ timeout' \in Timeouts
            /\ cret' = cret

C21_NotifiedOnceOnEntry == []C21_State /\ [][C21_Step]_vars

\* The delivery failed, and the intervention polled more than once and
\* ended with the challenge solved.
C21_Witness ==
    /\ notes = [calls |-> 1, last |-> "failed"]
    /\ polls.present >= 2
    /\ cpc = "done" /\ cret

\* C23 as claimed: once wait_for_captcha_solution has returned, the status
\* shows no intervention: not active, no start time, a duration of 0.
C23_StatusClearedAfterReturn ==
    cpc = "done" => InterventionStatus = [active |-> FALSE, start_time |-> None, duration |-> 0]

Waiting == {t \in Tasks : wpc[t] = "sleep"}

\* C22 as claimed: at most one wait of the handler is in progress at any
\* time, and the active flag is set as long as a wait is in progress.
C22_InterventionsDoNotNest ==
    /\ Cardinality(Waiting) <= 1
    /\ Waiting # {} => intervention_active

\* C25: the stealth scripts are run in a new browser instance once, inside
\* its creation: every instance that the slot holds, that a caller has been
\* given, or that shows another page than the one it started with, has had
\* the scripts run, exactly once; and they are never run again.
C25_State ==
    /\ driver # None => browsers[driver].stealth = 1
    /\ \A t \in Tasks : res[t].kind = "handle" => browsers[res[t].handle].stealth = 1
    /\ \A b \in BrowserIds :
         /\ browsers[b].url # StartUrl => browsers[b].stealth = 1
         /\ browsers[b].stealth <= 1

C25_Step ==
    \A b \in BrowserIds :
        browsers'[b].stealth # browsers[b].stealth
            => (browsers[b].st = "unborn" /\ browsers'[b].url = StartUrl)

C25_StealthBeforeUse == []C25_State /\ [][C25_Step]_vars

\* A caller holds the handle of the instance in the slot, which has been
\* navigated to a page, and the scripts had been run in it.
C25_Witness ==
    \E t \in Tasks : /\ AcquireDone(t) /\ res[t].kind = "handle" /\ seen[t].made = 1
                     /\ driver = res[t].handle
                     /\ browsers[driver].url # StartUrl
                     /\ browsers[driver].stealth = 1

\* C29: every construction of BrowserManager returns the one object made
\* when the module was imported, and a construction changes neither the
\* slot nor the locked-in flag, whatever they are at that moment: the
\* consumer sees the slot and the flag as they are.
C29_State ==
    /\ instance = Supreme
    /\ \A t \in Tasks : refs[t] # NoRef => refs[t].obj = Supreme

C29_Step ==
    refs' # refs =>
        /\ driver' = driver
        /\ locked_in' = locked_in
        /\ \A t \in Tasks : refs'[t] # refs[t]
              => (refs'[t].slot = driver /\ refs'[t].locked = locked_in)

C29_Singleton == []C29_State /\ [][C29_Step]_vars

\* A consumer constructed the manager when it held a driver and was
\* locked-in; both are still there.
C29_Witness ==
    \E t \in Tasks : /\ refs[t].obj = Supreme /\ refs[t].locked /\ refs[t].slot # None
                     /\ locked_in /\ driver = refs[t].slot

\* A start of SeekBot i is in progress / has returned.
StartRunning(i) == \E t \in Tasks : btarget[t] = i /\ bpc[t] \notin {"none", "scheduled", "returned"}
StartReturned(t) == bjob[t] = "bot" /\ bpc[t] = "returned"

\* C27 as claimed: whichever way SeekBot.start ends, no exception leaves
\* it, and when it has returned (no other start of that SeekBot being in
\* progress) the SeekBot is not running, its task is 'idle', and POST
\* /start is accepted.
C27_FailedRunLeavesIdle ==
    \A t \in Tasks :
        (StartReturned(t) /\ ~StartRunning(btarget[t]) /\ bot_instance = btarget[t])
            => /\ bret[t] # "raised"
               /\ ~brun[btarget[t]]
               /\ btask[btarget[t]] = "idle"
               /\ StartAccepted(bot_instance, brun)

\* C28: no step of a bot start, a bot stop, a bot run or a scraper run and
\* close, whether it succeeds or fails, ends a browser instance or changes
\* the manager's slot once it holds a driver: the session that is there
\* before is there afterwards.
C28_Step ==
    /\ driver # None => driver' = driver
    /\ \A b \in BrowserIds : browsers[b].st = "running" => browsers'[b].st = "running"

C28_OnlyManagerDestroys == [][C28_Step]_vars

\* A bot run and a scraper run have ended, one of them by an exception,
\* and the driver that the manager created is still in the slot, running.
C28_Witness ==
    \E t, u \in Tasks :
        /\ bjob[t] = "bot" /\ bpc[t] = "returned" /\ bret[t] = "false"
        /\ bjob[u] = "scraper" /\ bpc[u] = "returned" /\ bret[u] = "raised"
        /\ driver # None /\ browsers[driver].st = "running"

\* C24 as claimed: a login that cannot go on, as after an intervention
\* timeout (raised as AuthError in the try body of login like every other
\* failure), ends by returning False: no exception escapes login.
C24_LoginFailsWithoutException == lpc = "done" => lret = "false"

\* The keys that are characters of the text, without the wrong characters
\* and the backspaces that take them away again.
RECURSIVE IsSubseq(_, _)
IsSubseq(a, b) ==
    IF a = <<>> THEN TRUE
    ELSE IF b = <<>> THEN FALSE
    ELSE IF a[1] = b[1] THEN IsSubseq(Tail(a), Tail(b))
    ELSE IsSubseq(a, Tail(b))

C31_ContentEqualsText ==
    tpc \in {"done", "done_fallback"} => Field(sent) = text

\* C32 as claimed: start reaches the scraping step only with a status that
\* reports alive, taken after its get_the_driver; with a status that is not
\* alive it returns False without scraping, and with a status that is alive
\* it goes on to the scraping step.
C32_State ==
    \A t \in Tasks : bjob[t] = "bot" /\ bpc[t] = "scrape" => bgot[t].kind = "alive"

C32_Step ==
    \A t \in Tasks :
        bjob[t] = "bot" /\ bpc[t] = "status_ret" /\ bpc'[t] # "status_ret" =>
            IF bgot[t].kind = "alive"
            THEN bpc'[t] = "scrape"
            ELSE bpc'[t] = "finally" /\ bret'[t] = "false"

C32_ScrapesWhenAlive == []C32_State /\ [][C32_Step]_vars

\* The bots whose start request was accepted and whose background task has
\* not ended.
StartedBots == {t \in Tasks : bjob[t] = "bot" /\ bpc[t] \notin {"none", "returned"}}

\* C33 as claimed: at most one bot has been started and has not finished; a
\* start request that comes in the meantime is rejected.
C33_AtMostOneStarted == Cardinality(StartedBots) <= 1

\* C34 as claimed: the wrapped function is invoked at most max_retries + 1
\* times and is slept for at most max_retries times (no wait after the
\* last attempt); the wrapper ends with the value of the first invocation
\* that succeeds, or with the exception of the function: one of another
\* type at once, one of the configured types after max_retries + 1
\* invocations.
C34_RetryBounded ==
    /\ invoked <= max_retries + 1
    /\ Len(slept) <= max_retries
    /\ Len(slept) <= invoked
    /\ rpc = "done" =>
          /\ rret.kind \in {"returned", "raised"}
          /\ rret.kind = "raised" /\ IsCaught(rret.exc, exceptions) =>
                 invoked = max_retries + 1 /\ rret.exc = last_exception

====
